---- MODULE Spec2Model ----
(***************************************************************************)
(* Model of the GraphQL Yoga plugin for Better Auth (src/src/plugin.ts).   *)
(* The source file holds two forms of the plugin: the cached form          *)
(* (lines 1-339: useBetterAuth delegating to the exported authorize, with  *)
(* an optional Redis cache) and the uncached form (lines 341-570: the      *)
(* whole check inline in onRequestParse).  Both are modelled; the          *)
(* configuration variable `variant` says which one is installed.           *)
(*                                                                         *)
(* Every await on a collaborator (redis.get, client.getSession,            *)
(* redis.setEx) is a suspension point, so the pre-parse hook is cut into   *)
(* one action per stretch of code between two such awaits.  A call on the  *)
(* cache is served by the Redis server in a step of its own, before its    *)
(* reply reaches the program.  In the cached form the hook awaits          *)
(* authorize (`await authorize(...)`), so it goes on, and settles, in a    *)
(* step after the one in which authorize ends.  The await on the token     *)
(* extractor (`await getToken(...)`) is a suspension point too: the hook   *)
(* is suspended there once the call has returned, and goes on when what    *)
(* it returned is delivered.  A call that throws rejects the hook at once, *)
(* with nothing awaited.                                                   *)
(***************************************************************************)
EXTENDS Naturals, Sequences, FiniteSets, TLC

\* ------------------------------------------------------------------ bounds
\* Number of request objects the host processes (interleaved).
MaxRequests == 2

\* The seconds over which the timed specification follows the clock.
MaxTime == 3

Requests == 1..MaxRequests

\* ------------------------------------------------------- values of the host
\* JavaScript's undefined, for string-valued fields.
Undefined == "<undefined>"
\* JavaScript's null / undefined, for object-valued fields.
Null == [null |-> TRUE]

\* A header is the list of its chunks: a chunk is a run of non-space
\* characters or one space character.
SP == " "
NoHeader == [present |-> FALSE]
Header(chunks) == [present |-> TRUE, chunks |-> chunks]

Headers ==
    { NoHeader,
      Header(<<>>),
      Header(<<"Bearer">>),
      Header(<<"Bearer", SP, "t1">>),
      Header(<<"Bearer", SP, "t2">>),
      Header(<<"Bearer", SP, SP, "t1">>),
      Header(<<"Basic", SP, "x">>) }

\* String.prototype.split(' ') on a chunk list: the pieces between spaces.
RECURSIVE SplitFrom(_, _, _, _)
SplitFrom(chunks, i, cur, acc) ==
    IF i > Len(chunks) THEN Append(acc, cur)
    ELSE IF chunks[i] = SP THEN SplitFrom(chunks, i + 1, "", Append(acc, cur))
    ELSE SplitFrom(chunks, i + 1, cur \o chunks[i], acc)

Split(chunks) == SplitFrom(chunks, 1, "", <<>>)

\* ---------------------------------------------------------------- errors
Messages ==
    [ invalidToken |-> "The provided access token is invalid.",
      expiredToken |-> "An invalid or expired access token was provided.",
      invalidPermissions |->
          "You do not have the necessary permissions to access this resource.",
      authRequired |-> "Authentication is required to access this resource." ]

HttpUnauthorized == 401

\* createGraphQLError(message, {extensions: {http: {status: 401}}})
unauthorizedError(message) ==
    [class |-> "GraphQLError", message |-> message, status |-> HttpUnauthorized]

\* A failure thrown by a collaborator (provider client, cache, JSON.parse,
\* a TypeError) or by `new Error(...)`: not a GraphQLError, no http status.
PlainError(message) ==
    [class |-> "Error", message |-> message, status |-> 0]

instanceofGraphQLError(ex) == ex.class = "GraphQLError"

\* ---------------------------------------------------------- token extractor
NoToken == [present |-> FALSE]
Token(v) == [present |-> TRUE, value |-> v]

Returned(v) == [threw |-> FALSE, value |-> v]
Threw(ex) == [threw |-> TRUE, error |-> ex]

\* `!header`: null or the empty string.
HeaderFalsy(h) == ~h.present \/ h.chunks = <<>>

\* Mutant of defaultGetToken: the scheme is not looked at.
defaultGetToken_noSchemeCheck(header) ==
    IF HeaderFalsy(header) THEN Returned(NoToken)
    ELSE LET pieces == Split(header.chunks)
         IN Returned(IF Len(pieces) >= 2 THEN Token(pieces[2]) ELSE NoToken)

\* Mutant of defaultGetToken: an empty token counts as no token.
defaultGetToken_emptyIsAbsent(header) ==
    IF HeaderFalsy(header) THEN Returned(NoToken)
    ELSE LET pieces == Split(header.chunks)
             type == pieces[1]
             token == IF Len(pieces) >= 2 /\ pieces[2] # ""
                      THEN Token(pieces[2]) ELSE NoToken
         IN IF type # "Bearer"
            THEN Threw(unauthorizedError(
                     "Unsupported token type provided: \"" \o type \o "\""))
            ELSE Returned(token)

defaultGetToken(header) ==
    IF HeaderFalsy(header) THEN Returned(NoToken)
    ELSE LET pieces == Split(header.chunks)
             type == pieces[1]
             token == IF Len(pieces) >= 2 THEN Token(pieces[2]) ELSE NoToken
         IN IF type # "Bearer"
            THEN Threw(unauthorizedError(
                     "Unsupported token type provided: \"" \o type \o "\""))
            ELSE Returned(token)

\* A getToken option of the installer's own: whatever the request carries,
\* awaiting what it returned yields no token or a token, or fails.
CustomGetTokenOutcomes ==
    { Returned(NoToken), Returned(Token("t1")), Threw(PlainError("getToken failed")) }

\* What `await getToken({request, serverContext, url})` yields for a request
\* whose authorization header is h: `getToken = defaultGetToken` unless the
\* option is set.
getTokenOutcomes(getToken, h) ==
    IF getToken = "default" THEN {defaultGetToken(h)} ELSE CustomGetTokenOutcomes

AllGetTokenOutcomes ==
    {defaultGetToken(h) : h \in Headers} \cup CustomGetTokenOutcomes

\* The call returned a value or a promise, which the hook awaits.
Awaited == [threw |-> FALSE]

\* The call `getToken({request, serverContext, url})` itself, before anything
\* is awaited, for a request whose authorization header is h.  The default
\* extractor is a plain function: it throws within the call or returns.  An
\* extractor of the installer's own throws within the call, or returns a
\* value or a promise.
getTokenCall(getToken, h) ==
    IF getToken = "default"
    THEN IF defaultGetToken(h).threw THEN {defaultGetToken(h)} ELSE {Awaited}
    ELSE {Threw(PlainError("getToken failed")), Awaited}

\* ------------------------------------------------- provider (Better Auth)
\* A Date object and the ISO string JSON.stringify turns it into.
DateValue(iso) == [type |-> "Date", iso |-> iso]
StringValue(iso) == [type |-> "string", iso |-> iso]

\* The records the provider holds.  The user of t1 is an admin and its
\* session carries expiresAt as a Date (the Session type of better-auth);
\* the user of t2 has no role field and its session carries expiresAt as a
\* plain string.
ProviderTokens == {"t1", "t2"}

ProviderRecord(t) ==
    CASE t = "t1" ->
           [ session |-> [id |-> "s1", token |-> "t1",
                          expiresAt |-> DateValue("2030-01-01T00:00:00.000Z")],
             user |-> [id |-> "u1", role |-> "admin"] ]
      [] t = "t2" ->
           [ session |-> [id |-> "s2", token |-> "t2",
                          expiresAt |-> StringValue("2030-01-02T00:00:00.000Z")],
             user |-> [id |-> "u2"] ]

\* What `const { data } = await client.getSession()` can yield for a token:
\* the call rejects, data is null (no session, or a session the provider has
\* ended since), data carries no session marker, or data is the provider's
\* record.
NoSessionData == [session |-> Null, user |-> Null]

GetSessionOutcomes(t) ==
    { Threw(PlainError("getSession failed")), Returned(Null), Returned(NoSessionData) }
      \cup (IF t \in ProviderTokens THEN {Returned(ProviderRecord(t))} ELSE {})

AllGetSessionOutcomes == UNION {GetSessionOutcomes(t) : t \in ProviderTokens}

\* `undefined`, as the value of a property that an object lacks.
NoProperty == [undefined |-> TRUE]

\* `!data?.session`
NoSession(data) == data = Null \/ data.session \in {Null, NoProperty}

\* ------------------------------------------------------------------- JSON
\* JSON.stringify: a Date becomes its ISO string (Date.prototype.toJSON);
\* strings and nested plain objects are kept.  The text is represented by
\* the tree it denotes.
ToJSONValue(v) == IF v.type = "Date" THEN StringValue(v.iso) ELSE v

StringifySession(s) == [s EXCEPT !.expiresAt = ToJSONValue(@)]

JSONstringify(data) ==
    [json |-> [session |-> StringifySession(data.session), user |-> data.user]]

\* A text that is not JSON: a truncated or overwritten value.
BadText == [garbled |-> TRUE]

\* The empty string.
EmptyText == [empty |-> TRUE]

\* The text `{}`: JSON, of an object with no session and no user.
EmptyObject == [session |-> NoProperty, user |-> NoProperty]
EmptyObjectText == [json |-> EmptyObject]

\* `!cachedData`: redis.get answered null or the empty string.
Falsy(text) == text = Null \/ text = EmptyText

\* JSON.parse: the tree of a JSON text; a SyntaxError on a text that is not
\* JSON, the empty string included.
JSONparse(text) ==
    IF "json" \in DOMAIN text THEN Returned(text.json)
    ELSE Threw(PlainError("SyntaxError"))

\* ------------------------------------------------------------ the identity
\* createAuthClient({baseURL, plugins, fetchOptions: {auth: {type, token}}})
createAuthClient(token) == [auth |-> [type |-> "Bearer", token |-> token]]

\* new BetterAuth({client, session, user})
BetterAuth(params) ==
    [client |-> params.client, session |-> params.session, user |-> params.user]

\* `user.role`: undefined when the field is not there.
RoleOf(user) == IF "role" \in DOMAIN user THEN user.role ELSE Undefined

\* `user.role || 'user'`
UserRole(user) ==
    IF RoleOf(user) = Undefined \/ RoleOf(user) = "" THEN "user" ELSE RoleOf(user)

\* The per-request store handed to authorize, or none (the default null).
NoStore == [supplied |-> FALSE]
Store(map) == [supplied |-> TRUE, map |-> map]
NoRequest == [supplied |-> FALSE]
Request(r) == [supplied |-> TRUE, id |-> r]

\* Mutant of handleAuthData: the role check is left out.
handleAuthData_noRoleCheck(data, client, allowedRoles, messages, store, request) ==
    LET auth == BetterAuth([client |-> client, session |-> data.session,
                            user |-> data.user])
    IN [threw |-> FALSE, value |-> auth,
        store |-> IF store.supplied /\ request.supplied
                  THEN Store([store.map EXCEPT ![request.id] = auth])
                  ELSE store]

\* Mutant of handleAuthData: a credential whose identity the store already
\* holds is refused.
handleAuthData_refusesSecond(data, client, allowedRoles, messages, store, request) ==
    IF allowedRoles # {} /\ UserRole(data.user) \notin allowedRoles
    THEN [threw |-> TRUE, error |-> unauthorizedError(messages.invalidPermissions),
          store |-> store]
    ELSE IF /\ store.supplied
            /\ \E k \in DOMAIN store.map :
                  store.map[k] # Null /\ store.map[k].client = client
    THEN [threw |-> TRUE, error |-> unauthorizedError(messages.invalidToken),
          store |-> store]
    ELSE LET auth == BetterAuth([client |-> client, session |-> data.session,
                                 user |-> data.user])
         IN [threw |-> FALSE, value |-> auth,
             store |-> IF store.supplied /\ request.supplied
                       THEN Store([store.map EXCEPT ![request.id] = auth])
                       ELSE store]

\* Mutant of handleAuthData: the identity is recorded before the role is
\* checked.
handleAuthData_storesFirst(data, client, allowedRoles, messages, store, request) ==
    LET auth == BetterAuth([client |-> client, session |-> data.session,
                            user |-> data.user])
        stored == IF store.supplied /\ request.supplied
                  THEN Store([store.map EXCEPT ![request.id] = auth])
                  ELSE store
    IN IF allowedRoles # {} /\ UserRole(data.user) \notin allowedRoles
       THEN [threw |-> TRUE,
             error |-> unauthorizedError(messages.invalidPermissions),
             store |-> stored]
       ELSE [threw |-> FALSE, value |-> auth, store |-> stored]

\* Mutant of handleAuthData: the identity is not recorded in the store.
handleAuthData_noStore(data, client, allowedRoles, messages, store, request) ==
    IF allowedRoles # {} /\ UserRole(data.user) \notin allowedRoles
    THEN [threw |-> TRUE, error |-> unauthorizedError(messages.invalidPermissions),
          store |-> store]
    ELSE [threw |-> FALSE,
          value |-> BetterAuth([client |-> client, session |-> data.session,
                                user |-> data.user]),
          store |-> store]

\* Mutant of handleAuthData: the store is one slot shared by all requests
\* instead of a map keyed by the request.
handleAuthData_sharedSlot(data, client, allowedRoles, messages, store, request) ==
    IF allowedRoles # {} /\ UserRole(data.user) \notin allowedRoles
    THEN [threw |-> TRUE, error |-> unauthorizedError(messages.invalidPermissions),
          store |-> store]
    ELSE LET auth == BetterAuth([client |-> client, session |-> data.session,
                                 user |-> data.user])
         IN [threw |-> FALSE, value |-> auth,
             store |-> IF store.supplied /\ request.supplied
                       THEN Store([k \in DOMAIN store.map |-> auth])
                       ELSE store]

\* handleAuthData: the role check, the construction of the identity and the
\* write to the per-request store.  Yields what it throws or returns, and
\* the store's map after it.  `user.role` is a TypeError when data has no
\* user, which only SessionData read from a damaged cache entry can lack.
handleAuthData(data, client, allowedRoles, messages, store, request) ==
    IF allowedRoles # {} /\ data.user \in {Null, NoProperty}
    THEN [threw |-> TRUE, error |-> PlainError("TypeError"), store |-> store]
    ELSE IF allowedRoles # {} /\ UserRole(data.user) \notin allowedRoles
    THEN [threw |-> TRUE, error |-> unauthorizedError(messages.invalidPermissions),
          store |-> store]
    ELSE LET auth == BetterAuth([client |-> client, session |-> data.session,
                                 user |-> data.user])
         IN [threw |-> FALSE, value |-> auth,
             store |-> IF store.supplied /\ request.supplied
                       THEN Store([store.map EXCEPT ![request.id] = auth])
                       ELSE store]

\* The catch clauses of authorize.  Lines 208-210 and 239-241 catch whatever
\* the try block threw and throw invalidToken; lines 254-259 (and 501-506 of
\* the uncached form) rethrow a GraphQLError and reclassify the rest.
CatchAll(res, messages) ==
    IF res.threw THEN [res EXCEPT !.error = unauthorizedError(messages.invalidToken)]
    ELSE res

\* Mutant of CatchRethrowGraphQLError: whatever was caught is thrown again.
CatchRethrowGraphQLError_rethrowsAll(res, messages) == res

CatchRethrowGraphQLError(res, messages) ==
    IF res.threw /\ ~instanceofGraphQLError(res.error)
    THEN [res EXCEPT !.error = unauthorizedError(messages.invalidToken)]
    ELSE res

\* ------------------------------------------------------------ configuration
DefaultCachePrefix == "tokens"
DefaultCacheExpiration == 5
DefaultExtendContextField == "auth"

\* The options a plugin instance can be set up with.  Only the cached form
\* knows the `redis` option.
AllowedRolesChoices == { {}, {"admin"}, {"user"} }

OptionsChoices ==
    { [variant |-> v, redis |-> c, allowedRoles |-> a, requireAuth |-> q,
       getToken |-> g,
       cachePrefix |-> DefaultCachePrefix,
       cacheExpiration |-> DefaultCacheExpiration,
       extendContextField |-> DefaultExtendContextField,
       messages |-> Messages] :
        v \in {"cached", "uncached"}, c \in BOOLEAN,
        a \in AllowedRolesChoices, q \in BOOLEAN, g \in {"default", "custom"} }

\* ------------------------------------------------------------------- state
VARIABLES
    options,            \* the plugin's options, fixed at set-up
    payloadByRequest,   \* the WeakMap<Request, BetterAuth>: request -> payload
    cache,              \* the Redis keyspace: key -> entry
    req,                \* per request: the hooks' position and local variables
    calls,              \* per request: collaborator calls answered so far
    now                 \* the clock, in seconds, where time is measured

vars == <<options, payloadByRequest, cache, req, calls, now>>

NoCalls == [get |-> 0, lookup |-> 0, setEx |-> 0]

Pending == [kind |-> "pending"]
Resolved(auth) == [kind |-> "resolved", auth |-> auth]
Rejected(ex) == [kind |-> "rejected", error |-> ex]

EmptyContext == [f \in {} |-> Null]

NewRequest ==
    [ pc |-> "new",
      header |-> NoHeader,        \* what defaultGetToken read with
                                  \* request.headers.get('authorization')
      token |-> NoToken,          \* const token
      given |-> [store |-> FALSE, request |-> FALSE],
                                  \* authorize was handed a store, a request
      path |-> "none",            \* which branch of authorize ran
      fault |-> "none",           \* the collaborator call that failed
      caller |-> "none",          \* "hook": authorize is awaited by
                                  \* onRequestParse; "direct": by another
      cached |-> Null,            \* const cachedData
      data |-> Null,              \* const data: the SessionData worked on
      source |-> 0,               \* the writer of the entry that redis.get
                                  \* was answered from
      dataAt |-> 0,               \* when the provider returned the
                                  \* SessionData written to or read from
                                  \* the cache
      appliedAt |-> 0,            \* when the server applied redis.setEx
      servedAt |-> 0,             \* when the server answered redis.get
      endedAt |-> 0,              \* when authorize ended
      result |-> Pending,         \* how authorize ended
      outcome |-> Pending,        \* how the promise the host or the caller
                                  \* holds settled: onRequestParse's, with
                                  \* what authorize handed the hook, or
                                  \* that of authorize called directly
      context |-> EmptyContext,   \* fields given to extendContext
      contextError |-> Null ]     \* what onContextBuilding threw

\* The state after useBetterAuth(o) for an o among `choices`.
InitWith(choices) ==
    /\ options \in {o \in choices : o.redis => o.variant = "cached"}
    /\ payloadByRequest = [r \in Requests |-> Null]
    /\ cache = [k \in {} |-> Null]
    /\ req = [r \in Requests |-> NewRequest]
    /\ calls = [r \in Requests |-> NoCalls]
    /\ now = 0

\* useBetterAuth(o), with or without a getToken option in o.
Init == InitWith(OptionsChoices)

\* -------------------------------------------------------------- the cache
\* Mutant of cacheKey: the token is left out of the key.
cacheKey_noToken(cachePrefix, token) == cachePrefix \o ":"

\* const cacheKey = `${cachePrefix}:${token}`
cacheKey(cachePrefix, token) == cachePrefix \o ":" \o token

\* redis.get(key): the value of the entry, or null.  Expired entries are
\* not in the keyspace.
redisGet(key) == IF key \in DOMAIN cache THEN cache[key].value ELSE Null

\* Mutant of redisSetEx: the entry lives twice the seconds asked for.
redisSetEx_doubleTtl(key, seconds, value, writer) ==
    [k \in DOMAIN cache \cup {key} |->
        IF k = key
        THEN [value |-> value, ttl |-> seconds + seconds, age |-> 0,
              writer |-> writer]
        ELSE cache[k]]

\* Mutant of redisSetEx: the write replaces the keyspace.
redisSetEx_dropsOthers(key, seconds, value, writer) ==
    [k \in {key} |->
        [value |-> value, ttl |-> seconds, age |-> 0, writer |-> writer]]

\* redis.setEx(key, seconds, value): the keyspace after the write.  An entry
\* knows its time to live, its age in seconds, and the request that wrote it.
redisSetEx(key, seconds, value, writer) ==
    [k \in DOMAIN cache \cup {key} |->
        IF k = key
        THEN [value |-> value, ttl |-> seconds, age |-> 0, writer |-> writer]
        ELSE cache[k]]

\* ------------------------------------------------- the uncached form, inline
\* Lines 470-500 of onRequestParse in the uncached form: the session check,
\* the role check and the write to the store, before its catch clause.
inlineCheck(data, client, allowedRoles, messages, store, request) ==
    IF NoSession(data)
    THEN [threw |-> TRUE, error |-> unauthorizedError(messages.invalidToken),
          store |-> store]
    ELSE IF allowedRoles # {} /\ UserRole(data.user) \notin allowedRoles
    THEN [threw |-> TRUE, error |-> unauthorizedError(messages.invalidPermissions),
          store |-> store]
    ELSE [threw |-> FALSE, value |-> Null,
          store |-> Store([store.map EXCEPT ![request.id] =
                      BetterAuth([client |-> client, session |-> data.session,
                                  user |-> data.user])])]

\* ------------------------------------------------------------ the hooks
ThrewIn(ex, store) == [threw |-> TRUE, error |-> ex, store |-> store]

\* Mutant of Settle: a lookup that failed is tried again.
Settle_retryLookup(r, res, note) ==
    IF res.threw /\ note.fault = "getSession"
    THEN /\ req' = [req EXCEPT ![r] = [@ EXCEPT !.fault = note.fault]]
         /\ UNCHANGED payloadByRequest
    ELSE LET ended == IF res.threw THEN Rejected(res.error)
                      ELSE Resolved(res.value)
             awaited == req[r].caller = "hook" /\ options.variant = "cached"
         IN /\ req' = [req EXCEPT ![r] = [@ EXCEPT
                         !.pc = IF awaited THEN "awaitAuthorize"
                                ELSE IF res.threw THEN "rejected" ELSE "parsed",
                         !.path = note.path,
                         !.fault = note.fault,
                         !.data = note.data,
                         !.source = note.source,
                         !.endedAt = now,
                         !.result = ended,
                         !.outcome = IF awaited THEN Pending ELSE ended]]
            /\ payloadByRequest' = IF res.store.supplied THEN res.store.map
                                   ELSE payloadByRequest

\* authorize, or the inline check of the uncached form, ends for request r
\* with what it threw or returned, the store being as it left it.  The
\* promise of authorize called directly, and that of the hook of the
\* uncached form, which runs the check itself, settle in the same run.  The
\* hook of the cached form is suspended on `await authorize(...)`, line
\* 131, and goes on in a later step (afterAuthorize).  The note is history:
\* the branch of authorize that ran, the collaborator call that failed (if
\* one did), the SessionData the branch worked on, and the request that
\* wrote the entry redis.get was answered from.
Note(path, fault, data, source) ==
    [path |-> path, fault |-> fault, data |-> data, source |-> source]

Settle(r, res, note) ==
    LET ended == IF res.threw THEN Rejected(res.error) ELSE Resolved(res.value)
        awaited == req[r].caller = "hook" /\ options.variant = "cached"
    IN /\ req' = [req EXCEPT ![r] = [@ EXCEPT
                    !.pc = IF awaited THEN "awaitAuthorize"
                           ELSE IF res.threw THEN "rejected" ELSE "parsed",
                    !.path = note.path,
                    !.fault = note.fault,
                    !.data = note.data,
                    !.source = note.source,
                    !.endedAt = now,
                    !.result = ended,
                    !.outcome = IF awaited THEN Pending ELSE ended]]
       /\ payloadByRequest' = IF res.store.supplied THEN res.store.map
                              ELSE payloadByRequest

\* onRequestParse of the cached form, lines 131-135, after the await on
\* authorize: the hook throws what authorize threw, or returns.
afterAuthorize(r) ==
    /\ req[r].pc = "awaitAuthorize"
    /\ req' = [req EXCEPT ![r] = [@ EXCEPT
                  !.pc = IF req[r].result.kind = "rejected"
                         THEN "rejected" ELSE "parsed",
                  !.outcome = req[r].result]]
    /\ UNCHANGED <<options, payloadByRequest, cache, calls, now>>

\* The payloadByRequest and request arguments authorize was called with for
\* r: lines 158-159, both null unless the caller hands them over.
StoreGiven(r) == IF req[r].given.store THEN Store(payloadByRequest) ELSE NoStore
RequestGiven(r) == IF req[r].given.request THEN Request(r) ELSE NoRequest

Called(r, what) == calls' = [calls EXCEPT ![r][what] = @ + 1]

\* Mutants of noCredential: requireAuth is not consulted.
noCredential_neverRejects(requireAuth, messages) == Resolved(Null)

noCredential_alwaysRejects(requireAuth, messages) ==
    Rejected(unauthorizedError(messages.authRequired))

\* onRequestParse, lines 132-134: no credential was found.
noCredential(requireAuth, messages) ==
    IF requireAuth THEN Rejected(unauthorizedError(messages.authRequired))
    ELSE Resolved(Null)

\* onRequestParse, line 128 (451 in the uncached form), up to the await: the
\* host hands over request r, whose authorization header is h, and the hook
\* calls the extractor.  When the call throws, the hook's promise is rejected
\* by the time onRequestParse returns; otherwise the hook is suspended on
\* `await getToken(...)`.  The default extractor reads the header in this
\* step (line 330); an extractor of the installer's own is not known to read
\* it.  Requests are numbered in the order the host hands them over.
onRequestParse(r, h) ==
    /\ req[r].pc = "new"
    /\ \A q \in Requests : q < r => req[q].pc # "new"
    /\ \E c \in getTokenCall(options.getToken, h) :
          req' = [req EXCEPT ![r] =
             LET read == IF options.getToken = "default" THEN h ELSE NoHeader
             IN IF c.threw
                THEN [@ EXCEPT !.pc = "rejected", !.header = read,
                               !.caller = "hook",
                               !.fault = "getToken",
                               !.outcome = Rejected(c.error)]
                ELSE [@ EXCEPT !.pc = "getToken", !.header = read,
                               !.caller = "hook"]]
    /\ UNCHANGED <<options, payloadByRequest, cache, calls, now>>

\* onRequestParse, lines 128-134, from the await on the extractor up to the
\* first await on a collaborator: the awaited result t is delivered; the
\* hook throws what a promise of the extractor rejected with, or enters
\* authorize (the inline code in the uncached form) with the token, or ends
\* for want of a credential.
afterGetToken(r, t) ==
    /\ req[r].pc = "getToken"
    /\ t \in getTokenOutcomes(options.getToken, req[r].header)
    /\ LET settled == IF t.threw THEN Rejected(t.error)
                      ELSE noCredential(options.requireAuth, options.messages)
       IN req' = [req EXCEPT ![r] =
            IF ~t.threw /\ t.value.present
            THEN IF options.variant = "cached" /\ options.redis
                 THEN [@ EXCEPT !.pc = "redisGet", !.token = t.value,
                                !.given = [store |-> TRUE, request |-> TRUE]]
                 ELSE [@ EXCEPT !.pc = "getSession", !.token = t.value,
                                !.given = [store |-> TRUE, request |-> TRUE],
                                !.path = IF options.variant = "cached"
                                         THEN "direct" ELSE "inline"]
            ELSE [@ EXCEPT !.pc = IF settled.kind = "rejected"
                                  THEN "rejected" ELSE "parsed",
                           !.fault = IF t.threw THEN "getToken" ELSE "none",
                           !.outcome = settled]]
    /\ UNCHANGED <<options, payloadByRequest, cache, calls, now>>

\* authorize, lines 155-217, up to the first await on a collaborator: a
\* caller other than the hook calls the exported function with a token, and
\* with or without a store and a request.  Calls are numbered like requests.
authorize(r, token, withStore, withRequest) ==
    /\ req[r].pc = "new"
    /\ \A q \in Requests : q < r => req[q].pc # "new"
    /\ options.variant = "cached"
    /\ req' = [req EXCEPT ![r] =
          [@ EXCEPT !.pc = IF options.redis THEN "redisGet" ELSE "getSession",
                    !.path = IF options.redis THEN "none" ELSE "direct",
                    !.token = Token(token),
                    !.caller = "direct",
                    !.given = [store |-> withStore, request |-> withRequest]]]
    /\ UNCHANGED <<options, payloadByRequest, cache, calls, now>>

\* The Redis server serves the redis.get of r, line 217: it reads the entry
\* of the key as the keyspace then is.  The reply is on its way to the
\* program until authorizeRedisGet.
redisServesGet(r) ==
    /\ req[r].pc = "redisGet"
    /\ LET key == cacheKey(options.cachePrefix, req[r].token.value)
           found == key \in DOMAIN cache
       IN req' = [req EXCEPT ![r] = [@ EXCEPT
                     !.pc = "redisGot",
                     !.cached = redisGet(key),
                     !.source = IF found THEN cache[key].writer ELSE 0,
                     !.dataAt = IF found THEN req[cache[key].writer].dataAt ELSE 0,
                     !.servedAt = now]]
    /\ UNCHANGED <<options, payloadByRequest, cache, calls, now>>

\* authorize, lines 217-219 and 244-259: `await redis.get(cacheKey)` returns
\* what the server answered, or rejects (before or after the server served
\* it); on a hit the stored text is parsed and handed to handleAuthData.
authorizeRedisGet(r, ok) ==
    /\ req[r].pc \in {"redisGet", "redisGot"}
    /\ ok => req[r].pc = "redisGot"
    /\ Called(r, "get")
    /\ LET token == req[r].token.value
           store == StoreGiven(r)
           cachedData == req[r].cached
       IN IF ~ok
          THEN Settle(r, ThrewIn(PlainError("redis.get failed"), store),
                      Note("none", "get", Null, req[r].source))
          ELSE IF Falsy(cachedData)
          THEN /\ req' = [req EXCEPT ![r] =
                            [@ EXCEPT !.pc = "getSession", !.path = "miss"]]
               /\ UNCHANGED payloadByRequest
          ELSE LET parsed == JSONparse(cachedData)
                   res == IF parsed.threw THEN ThrewIn(parsed.error, store)
                          ELSE handleAuthData(parsed.value, createAuthClient(token),
                                   options.allowedRoles, options.messages,
                                   store, RequestGiven(r))
               IN Settle(r, CatchRethrowGraphQLError(res, options.messages),
                         Note("hit", IF parsed.threw THEN "parse" ELSE "none",
                              IF parsed.threw THEN Null ELSE parsed.value,
                              req[r].source))
    /\ UNCHANGED <<options, cache, now>>

\* authorize with no cache, lines 191-211, from the return of getSession on:
\* the session check and handleAuthData inside `try`, and the bare `catch`.
authorizeNoCache(out, client, allowedRoles, messages, store, request) ==
    CatchAll(
        IF out.threw THEN ThrewIn(out.error, store)
        ELSE IF NoSession(out.value)
        THEN ThrewIn(unauthorizedError(messages.invalidToken), store)
        ELSE handleAuthData(out.value, client, allowedRoles, messages, store, request),
        messages)

\* The uncached form, lines 456-506, from the return of getSession on: the
\* inline checks inside `try`, and the catch that rethrows a GraphQLError.
onRequestParseInline(out, client, allowedRoles, messages, store, request) ==
    CatchRethrowGraphQLError(
        IF out.threw THEN ThrewIn(out.error, store)
        ELSE inlineCheck(out.value, client, allowedRoles, messages, store, request),
        messages)

\* `await client.getSession()` returns or rejects with `out`: lines 192-210
\* (no cache), 220-227 (cache miss) and 468-506 (uncached form).
authorizeGetSession(r, out) ==
    /\ req[r].pc = "getSession"
    /\ out \in GetSessionOutcomes(req[r].token.value)
    /\ Called(r, "lookup")
    /\ LET token == req[r].token.value
           store == IF req[r].path = "inline" THEN Store(payloadByRequest)
                    ELSE StoreGiven(r)
           client == createAuthClient(token)
           invalid == ThrewIn(unauthorizedError(options.messages.invalidToken), store)
           note == Note(req[r].path, IF out.threw THEN "getSession" ELSE "none",
                        IF out.threw THEN Null ELSE out.value, req[r].source)
       IN CASE req[r].path = "direct" ->
                 Settle(r, authorizeNoCache(out, client, options.allowedRoles,
                               options.messages, store, RequestGiven(r)), note)
            [] req[r].path = "miss" ->
                 IF out.threw \/ NoSession(out.value)
                 THEN Settle(r, CatchAll(
                          IF out.threw THEN ThrewIn(out.error, store) ELSE invalid,
                          options.messages), note)
                 ELSE /\ req' = [req EXCEPT ![r] =
                                   [@ EXCEPT !.pc = "redisSetEx",
                                             !.data = out.value,
                                             !.dataAt = now]]
                      /\ UNCHANGED payloadByRequest
            [] req[r].path = "inline" ->
                 Settle(r, onRequestParseInline(out, client, options.allowedRoles,
                               options.messages, store, Request(r)), note)
    /\ UNCHANGED <<options, cache, now>>

\* The Redis server applies the redis.setEx of r, line 229: the entry is in
\* the keyspace from now on, for cacheExpiration seconds.  The reply is on
\* its way to the program until authorizeRedisSetEx.
redisServesSetEx(r) ==
    /\ req[r].pc = "redisSetEx"
    /\ cache' = redisSetEx(cacheKey(options.cachePrefix, req[r].token.value),
                           options.cacheExpiration, JSONstringify(req[r].data), r)
    /\ req' = [req EXCEPT ![r] = [@ EXCEPT !.pc = "redisSetExDone",
                                          !.appliedAt = now]]
    /\ UNCHANGED <<options, payloadByRequest, calls, now>>

\* authorize, lines 229-241: `await redis.setEx(...)` returns, or rejects
\* (before or after the server applied the write), then handleAuthData runs,
\* all inside the try block of the miss branch.
authorizeRedisSetEx(r, ok) ==
    /\ req[r].pc \in {"redisSetEx", "redisSetExDone"}
    /\ ok => req[r].pc = "redisSetExDone"
    /\ Called(r, "setEx")
    /\ LET token == req[r].token.value
           store == StoreGiven(r)
           data == req[r].data
       IN IF ~ok
          THEN Settle(r, CatchAll(ThrewIn(PlainError("redis.setEx failed"), store),
                                  options.messages),
                      Note("miss", "setEx", data, req[r].source))
          ELSE Settle(r, CatchAll(
                      handleAuthData(data, createAuthClient(token),
                          options.allowedRoles, options.messages, store,
                          RequestGiven(r)),
                      options.messages),
                      Note("miss", "none", data, req[r].source))
    /\ UNCHANGED <<options, cache, now>>

\* Mutant of missingRequestError: the failure is shaped like the
\* authorization failures.
missingRequestError_as401 ==
    unauthorizedError("Request is not available on context! "
        \o "Make sure you use this plugin with GraphQL Yoga.")

\* onContextBuilding, lines 139-141: `throw new Error(...)`.
missingRequestError ==
    PlainError("Request is not available on context! "
        \o "Make sure you use this plugin with GraphQL Yoga.")

\* onContextBuilding: the host builds the context of a request whose pre-parse
\* hook resolved; hasRequest says whether context.request is there.
onContextBuilding(r, hasRequest) ==
    /\ req[r].pc = "parsed"
    /\ LET payload == payloadByRequest[r]
       IN req' = [req EXCEPT ![r] =
            IF ~hasRequest
            THEN [@ EXCEPT !.pc = "contextFailed",
                           !.contextError = missingRequestError]
            ELSE IF payload # Null
            THEN [@ EXCEPT !.pc = "built",
                           !.context = (options.extendContextField :> payload)]
            ELSE [@ EXCEPT !.pc = "built"]]
    /\ UNCHANGED <<options, payloadByRequest, cache, calls, now>>

\* --------------------------------------------------------- the environment
\* The keyspace a second later: every entry is a second older, and the
\* entries that reach their time to live are gone.
Aged ==
    [k \in {j \in DOMAIN cache : cache[j].age + 1 < cache[j].ttl} |->
        [cache[k] EXCEPT !.age = @ + 1]]

\* A second passes for the entries of the cache, the clock not being read.
Tick ==
    /\ DOMAIN cache # {}
    /\ cache' = Aged
    /\ UNCHANGED <<options, payloadByRequest, req, calls, now>>

Next ==
    \/ \E r \in Requests, h \in Headers : onRequestParse(r, h)
    \/ \E r \in Requests, t \in AllGetTokenOutcomes : afterGetToken(r, t)
    \/ \E r \in Requests : redisServesGet(r)
    \/ \E r \in Requests, ok \in BOOLEAN : authorizeRedisGet(r, ok)
    \/ \E r \in Requests, out \in AllGetSessionOutcomes : authorizeGetSession(r, out)
    \/ \E r \in Requests : redisServesSetEx(r)
    \/ \E r \in Requests, ok \in BOOLEAN : authorizeRedisSetEx(r, ok)
    \/ \E r \in Requests : afterAuthorize(r)
    \/ \E r \in Requests : onContextBuilding(r, TRUE)
    \/ Tick

\* The plugin under GraphQL Yoga, which puts the request on every context.
Spec == Init /\ [][Next]_vars

\* What the pre-parse hook of r is waiting for: the calls on the extractor,
\* on the cache and on the provider, the server's part in them, and the end
\* of authorize.
AwaitedStep(r) ==
    \/ \E t \in AllGetTokenOutcomes : afterGetToken(r, t)
    \/ redisServesGet(r)
    \/ \E ok \in BOOLEAN : authorizeRedisGet(r, ok)
    \/ \E out \in AllGetSessionOutcomes : authorizeGetSession(r, out)
    \/ redisServesSetEx(r)
    \/ \E ok \in BOOLEAN : authorizeRedisSetEx(r, ok)
    \/ afterAuthorize(r)

\* The pre-parse hook alone, for requests handled within the time to live of
\* the entries they write: requests with no header, with a token, and with a
\* scheme the default extractor refuses.
FairHeaders ==
    { NoHeader, Header(<<"Bearer", SP, "t1">>), Header(<<"Basic", SP, "x">>) }

NextParse ==
    \/ \E r \in Requests, h \in FairHeaders : onRequestParse(r, h)
    \/ \E r \in Requests, t \in AllGetTokenOutcomes : afterGetToken(r, t)
    \/ \E r \in Requests : redisServesGet(r)
    \/ \E r \in Requests, ok \in BOOLEAN : authorizeRedisGet(r, ok)
    \/ \E r \in Requests, out \in AllGetSessionOutcomes : authorizeGetSession(r, out)
    \/ \E r \in Requests : redisServesSetEx(r)
    \/ \E r \in Requests, ok \in BOOLEAN : authorizeRedisSetEx(r, ok)
    \/ \E r \in Requests : afterAuthorize(r)

\* The assumption that the calls a hook awaits return or reject in the end:
\* as long as some hook is waiting for a call, one such call returns.
SpecFair ==
    Init /\ [][NextParse]_vars /\ WF_vars(\E r \in Requests : AwaitedStep(r))

\* A second passes, for the entries of the cache and on the clock.  Time
\* passes whatever the requests are waiting for; the clock is followed up
\* to MaxTime.
TickTimed ==
    /\ now < MaxTime
    /\ now' = now + 1
    /\ cache' = Aged
    /\ UNCHANGED <<options, payloadByRequest, req, calls>>

\* The pre-parse hook of a plugin set up with a cache whose entries live two
\* seconds, for requests that carry a token, on the clock.
TimedHeaders == {Header(<<"Bearer", SP, "t1">>), Header(<<"Bearer", SP, "t2">>)}

TimedOptions ==
    { [o EXCEPT !.cacheExpiration = 2] :
        o \in {c \in OptionsChoices :
                  /\ c.variant = "cached" /\ c.redis /\ c.allowedRoles = {}
                  /\ ~c.requireAuth /\ c.getToken = "default"} }

InitTimed == InitWith(TimedOptions)

NextTimed ==
    \/ \E r \in Requests, h \in TimedHeaders : onRequestParse(r, h)
    \/ \E r \in Requests, t \in AllGetTokenOutcomes : afterGetToken(r, t)
    \/ \E r \in Requests : redisServesGet(r)
    \/ \E r \in Requests, ok \in BOOLEAN : authorizeRedisGet(r, ok)
    \/ \E r \in Requests, out \in AllGetSessionOutcomes : authorizeGetSession(r, out)
    \/ \E r \in Requests : redisServesSetEx(r)
    \/ \E r \in Requests, ok \in BOOLEAN : authorizeRedisSetEx(r, ok)
    \/ \E r \in Requests : afterAuthorize(r)
    \/ TickTimed

SpecTimed == InitTimed /\ [][NextTimed]_vars

\* The value of an entry is damaged in the cache: it is no longer the text
\* that was written, but the empty string, a text that is not JSON, or the
\* JSON text of something that is not SessionData.
DamagedTexts == {EmptyText, BadText, EmptyObjectText}

Garble(k, text) ==
    /\ k \in DOMAIN cache
    /\ cache[k].value \notin DamagedTexts
    /\ cache' = [cache EXCEPT ![k].value = text]
    /\ UNCHANGED <<options, payloadByRequest, req, calls, now>>

\* The pre-parse hook of a plugin set up with a cache whose entries can be
\* damaged.
CacheKeys == {cacheKey(DefaultCachePrefix, t) : t \in ProviderTokens}

InitGarbled == Init /\ options.redis

NextGarbled ==
    \/ \E r \in Requests, h \in Headers : onRequestParse(r, h)
    \/ \E r \in Requests, t \in AllGetTokenOutcomes : afterGetToken(r, t)
    \/ \E r \in Requests : redisServesGet(r)
    \/ \E r \in Requests, ok \in BOOLEAN : authorizeRedisGet(r, ok)
    \/ \E r \in Requests, out \in AllGetSessionOutcomes : authorizeGetSession(r, out)
    \/ \E r \in Requests : redisServesSetEx(r)
    \/ \E r \in Requests, ok \in BOOLEAN : authorizeRedisSetEx(r, ok)
    \/ \E r \in Requests : afterAuthorize(r)
    \/ \E k \in CacheKeys, text \in DamagedTexts : Garble(k, text)

SpecGarbled == InitGarbled /\ [][NextGarbled]_vars

\* The hooks under a host that may build a context with no request on it,
\* for requests handled within the time to live of the entries they write.
NextAnyHost ==
    \/ \E r \in Requests, h \in FairHeaders : onRequestParse(r, h)
    \/ \E r \in Requests, t \in AllGetTokenOutcomes : afterGetToken(r, t)
    \/ \E r \in Requests : redisServesGet(r)
    \/ \E r \in Requests, ok \in BOOLEAN : authorizeRedisGet(r, ok)
    \/ \E r \in Requests, out \in AllGetSessionOutcomes : authorizeGetSession(r, out)
    \/ \E r \in Requests : redisServesSetEx(r)
    \/ \E r \in Requests, ok \in BOOLEAN : authorizeRedisSetEx(r, ok)
    \/ \E r \in Requests : afterAuthorize(r)
    \/ \E r \in Requests, hasRequest \in BOOLEAN : onContextBuilding(r, hasRequest)

SpecAnyHost == Init /\ [][NextAnyHost]_vars

\* The exported authorize called directly, by callers that are not the hooks,
\* all within the time to live of the entries they write.  requireAuth and
\* getToken are read by the hook only.
CallTokens == {"t1", "t2"}

InitCall ==
    /\ Init
    /\ options.variant = "cached"
    /\ ~options.requireAuth /\ options.getToken = "default"

NextCall ==
    \/ \E r \in Requests, t \in CallTokens, s \in BOOLEAN, q \in BOOLEAN :
          authorize(r, t, s, q)
    \/ \E r \in Requests : redisServesGet(r)
    \/ \E r \in Requests, ok \in BOOLEAN : authorizeRedisGet(r, ok)
    \/ \E r \in Requests, out \in AllGetSessionOutcomes : authorizeGetSession(r, out)
    \/ \E r \in Requests : redisServesSetEx(r)
    \/ \E r \in Requests, ok \in BOOLEAN : authorizeRedisSetEx(r, ok)

SpecCall == InitCall /\ [][NextCall]_vars

\* ===================================================================== claims
\* The pre-parse hook of r has gone past `await getToken(...)`.
Extracted(r) == req[r].pc \notin {"new", "getToken"}

\* The extractor of r found no credential: the default extractor, which
\* returns undefined when there is no header, or an extractor of the
\* installer's own that returned null or undefined.
NoCredentialFound(r) ==
    /\ Extracted(r)
    /\ ~req[r].header.present
    /\ \/ options.getToken = "default"
       \/ ~req[r].token.present /\ req[r].fault # "getToken"

\* The pre-parse hook of r (or the call of authorize numbered r) has settled:
\* its promise is resolved or rejected.
Settled(r) == req[r].outcome.kind # "pending"

\* authorize ran for r on SessionData with a valid session marker whose user
\* role is outside a non-empty allowedRoles, and no collaborator call failed.
RoleOutside(r) ==
    /\ options.variant = "cached"
    /\ options.allowedRoles # {}
    /\ Settled(r)
    /\ req[r].path \in {"direct", "miss", "hit"}
    /\ req[r].fault = "none"
    /\ ~NoSession(req[r].data)
    /\ UserRole(req[r].data.user) \notin options.allowedRoles

InvalidPermissions == unauthorizedError(options.messages.invalidPermissions)
InvalidToken == unauthorizedError(options.messages.invalidToken)
AuthRequired == unauthorizedError(options.messages.authRequired)

\* C1 (as claimed): whenever authorize handled a session whose role is outside
\* a non-empty allowedRoles, on the no-cache, cache-miss or cache-hit path, it
\* failed with Unauthorized(invalidPermissions) and no other failure kind.
C1_RoleFailureNeverMasked ==
    \A r \in Requests :
        RoleOutside(r) => req[r].outcome = Rejected(InvalidPermissions)

\* The identity made of the credential t and the SessionData d.
IdentityOf(t, d) ==
    [client |-> [auth |-> [type |-> "Bearer", token |-> t]],
     session |-> d.session, user |-> d.user]

\* ---------------------------------------------------------------------- C2
\* The identities request r has produced: returned by authorize, recorded in
\* the per-request store, attached to the context.
IdentitiesOf(r) ==
    (IF req[r].outcome.kind = "resolved" /\ req[r].outcome.auth # Null
     THEN {req[r].outcome.auth} ELSE {})
    \cup (IF req[r].result.kind = "resolved" /\ req[r].result.auth # Null
          THEN {req[r].result.auth} ELSE {})
    \cup (IF payloadByRequest[r] # Null THEN {payloadByRequest[r]} ELSE {})
    \cup {req[r].context[f] : f \in DOMAIN req[r].context}

\* C2: in every reachable state, with a non-empty allowedRoles no identity is
\* returned, stored or attached whose user role (defaulting to "user") is
\* outside the set; with an empty allowedRoles no request is rejected with
\* invalidPermissions.
C2_NoIdentityOutsideAllowedRoles ==
    \A r \in Requests :
        /\ options.allowedRoles # {} =>
              \A a \in IdentitiesOf(r) : UserRole(a.user) \in options.allowedRoles
        /\ options.allowedRoles = {} =>
              req[r].outcome # Rejected(InvalidPermissions)

\* A request on a role-restricted plugin got an identity attached while
\* another, whose user is outside the roles, was rejected.
C2_Witness ==
    \E r, q \in Requests :
        /\ options.allowedRoles # {}
        /\ req[r].pc = "built" /\ DOMAIN req[r].context # {}
        /\ req[q].pc = "rejected" /\ ~NoSession(req[q].data)
        /\ UserRole(req[q].data.user) \notin options.allowedRoles

\* ---------------------------------------------------------------------- C3
\* C3 (as claimed): every failure of the provider lookup or of a cache
\* operation (get, set) reaches the caller of authorize as an Unauthorized
\* error carrying status 401.
C3_CollaboratorFailuresAre401 ==
    \A r \in Requests :
        req[r].fault \in {"get", "getSession", "setEx"} =>
            /\ req[r].result.kind = "rejected"
            /\ instanceofGraphQLError(req[r].result.error)
            /\ req[r].result.error.status = HttpUnauthorized

\* ---------------------------------------------------------------------- C4
\* C4 (as claimed): with a cache, a miss with a valid session makes exactly
\* one lookup and one write, at key "<cachePrefix>:T" with the configured
\* time to live; a later authorize(T) that finds the entry makes no lookup,
\* one cache read and no write, and its identity has the same session and the
\* same user as the identity of the request that wrote the entry (the
\* identity of its token and of the SessionData it looked up; its write is
\* counted once answered).
C4_MissWritesOnceHitEqualsFirst ==
    /\ \A k \in DOMAIN cache :
          LET w == cache[k].writer
          IN /\ k = cacheKey(options.cachePrefix, req[w].token.value)
             /\ cache[k].ttl = options.cacheExpiration
             /\ calls[w].lookup = 1
             /\ calls[w].setEx = IF req[w].pc = "redisSetExDone" THEN 0 ELSE 1
    /\ \A q \in Requests :
          req[q].path = "hit" =>
             /\ calls[q].lookup = 0 /\ calls[q].get = 1 /\ calls[q].setEx = 0
             /\ req[q].result.kind = "resolved" =>
                   LET first == IdentityOf(req[req[q].source].token.value,
                                           req[req[q].source].data)
                   IN /\ req[q].result.auth.session = first.session
                      /\ req[q].result.auth.user = first.user

\* ---------------------------------------------------------------------- C5
\* C5: one invocation of authorize makes at most one cache read, one cache
\* write and one session lookup; on a cache hit no lookup and no write; a
\* lookup that failed ended the invocation after that one call.
C5_AtMostOneCallEach ==
    \A r \in Requests :
        /\ calls[r].get <= 1 /\ calls[r].setEx <= 1 /\ calls[r].lookup <= 1
        /\ req[r].path = "hit" => calls[r].lookup = 0 /\ calls[r].setEx = 0
        /\ ~(calls[r].lookup >= 1 /\ req[r].pc = "getSession")
        /\ req[r].fault = "getSession" =>
              /\ req[r].result.kind = "rejected"
              /\ req[r].pc \in {"awaitAuthorize", "rejected"}

\* One request missed the cache, looked the session up and wrote the entry;
\* another was then served from that entry.
C5_Witness ==
    \E r, q \in Requests :
        /\ req[r].path = "hit" /\ req[r].pc = "parsed" /\ req[r].source = q
        /\ calls[r] = [get |-> 1, lookup |-> 0, setEx |-> 0]
        /\ calls[q] = [get |-> 1, lookup |-> 1, setEx |-> 1]

\* ---------------------------------------------------------------------- C6
\* The header is "Bearer <t>": the scheme, one space, a value.
BearerHeader(h) ==
    /\ h.present
    /\ Len(h.chunks) = 3
    /\ h.chunks[1] = "Bearer" /\ h.chunks[2] = SP /\ h.chunks[3] # SP

\* The session lookup made for r reported a valid session.
ReportedValid(r) ==
    /\ Settled(r)
    /\ req[r].path \in {"direct", "miss", "inline"}
    /\ calls[r].lookup = 1
    /\ ~NoSession(req[r].data)

\* The pre-parse hook of r succeeded with the identity of its header's
\* credential and of the SessionData reported for it, and the context-build
\* hook, once run, attached exactly that under the configured field.
SucceededWithReported(r) ==
    LET id == IdentityOf(req[r].header.chunks[3], req[r].data)
    IN /\ req[r].outcome.kind = "resolved"
       /\ options.variant = "cached" => req[r].outcome.auth = id
       /\ payloadByRequest[r] = id
       /\ req[r].pc = "built" =>
             /\ DOMAIN req[r].context = {options.extendContextField}
             /\ req[r].context[options.extendContextField] = id

\* C6 (as claimed): for every request with header "Bearer <t>", when the
\* provider reports a valid session for t and allowedRoles is empty, the
\* pre-parse hook succeeds with exactly that session and user, and the
\* context-build hook attaches that identity under the configured field.
C6_ValidSessionIsAttached ==
    \A r \in Requests :
        BearerHeader(req[r].header) /\ ReportedValid(r) /\ options.allowedRoles = {}
            => SucceededWithReported(r)

\* C6 (amended): the same, provided that the cache write that follows the
\* lookup, when a cache is configured, did not fail; when that write fails
\* the hook is rejected with invalidToken and no identity is recorded.
C6_ValidSessionIsAttachedUnlessCacheFails ==
    \A r \in Requests :
        BearerHeader(req[r].header) /\ ReportedValid(r) /\ options.allowedRoles = {}
            => /\ req[r].fault \in {"none", "setEx"}
               /\ req[r].fault = "none" => SucceededWithReported(r)
               /\ req[r].fault = "setEx" =>
                     /\ req[r].outcome = Rejected(InvalidToken)
                     /\ payloadByRequest[r] = Null

\* A request with a Bearer header and a valid session had its identity
\* attached under "auth" after a cache miss and a successful cache write.
C6_Witness ==
    \E r \in Requests :
        /\ BearerHeader(req[r].header) /\ ReportedValid(r)
        /\ options.allowedRoles = {} /\ req[r].fault = "none"
        /\ req[r].path = "miss" /\ req[r].pc = "built"
        /\ "auth" \in DOMAIN req[r].context

\* ---------------------------------------------------------------------- C7
\* A step changes the store's entry of request r only if the entry was empty
\* and the step is one of r's own pre-parse hook and of no other request:
\* the one in which the authorize that r's hook called (in the uncached
\* form, the check the hook makes itself) goes on from an awaited call and
\* ends with success.  In the cached form the hook is then still suspended
\* on `await authorize(...)`.
C7_StoreStep ==
    \A r \in Requests :
        payloadByRequest'[r] # payloadByRequest[r] =>
            /\ payloadByRequest[r] = Null
            /\ req[r].caller = "hook"
            /\ req[r].pc \in {"redisGot", "getSession", "redisSetExDone"}
            /\ req[r].result = Pending /\ req'[r].result.kind = "resolved"
            /\ req'[r].pc = IF options.variant = "cached"
                            THEN "awaitAuthorize" ELSE "parsed"
            /\ \A q \in Requests \ {r} :
                  req'[q] = req[q] /\ payloadByRequest'[q] = payloadByRequest[q]

\* What is stored for r and attached to r's context is the identity of r's
\* own credential and of the SessionData r's own check worked on.
C7_OwnIdentity ==
    \A r \in Requests :
        /\ payloadByRequest[r] # Null =>
              /\ req[r].token.present
              /\ payloadByRequest[r] = IdentityOf(req[r].token.value, req[r].data)
        /\ \A f \in DOMAIN req[r].context :
              req[r].context[f] = IdentityOf(req[r].token.value, req[r].data)

\* C7: under any interleaving, the per-request store is written at most once
\* per request and only by that request's own pre-parse hook, and the
\* identity attached to a request's context is the one derived from that
\* request's own credential.
C7_StoreIsPerRequest == [](C7_OwnIdentity) /\ [][C7_StoreStep]_vars

\* Two requests with different credentials in the cached form: one got its
\* identity attached, the other's identity is in the store while its hook is
\* still suspended on `await authorize(...)`.
C7_Witness ==
    \E r, q \in Requests :
        /\ options.variant = "cached"
        /\ req[r].pc = "built" /\ DOMAIN req[r].context # {}
        /\ req[q].pc = "awaitAuthorize" /\ req[q].outcome = Pending
        /\ payloadByRequest[q] # Null
        /\ req[r].token.value # req[q].token.value

\* ---------------------------------------------------------------------- C8
\* Request r made no call on the provider or the cache and left no trace in
\* the store or the cache.
NoSideEffect(r) ==
    /\ calls[r] = NoCalls
    /\ payloadByRequest[r] = Null
    /\ \A k \in DOMAIN cache : cache[k].writer # r

\* C8: a request with no authorization header, for which the extractor
\* returns no credential, with requireAuth = true, is
\* rejected with Unauthorized(authRequired), with no provider or cache call
\* and nothing recorded in the store.
C8_NoHeaderRequiredAuth ==
    \A r \in Requests :
        NoCredentialFound(r) /\ options.requireAuth =>
            /\ req[r].pc = "rejected"
            /\ req[r].outcome = Rejected(AuthRequired)
            /\ NoSideEffect(r)

\* A header-less request was rejected while another request was authorized.
C8_Witness ==
    \E r, q \in Requests :
        /\ req[r].pc = "rejected" /\ ~req[r].header.present /\ options.requireAuth
        /\ payloadByRequest[q] # Null

\* ---------------------------------------------------------------------- C9
\* C9: a request with no authorization header, for which the extractor
\* returns no credential, with requireAuth = false,
\* raises no error, and its context gets no identity attached.
C9_NoHeaderOptionalAuth ==
    \A r \in Requests :
        NoCredentialFound(r) /\ ~options.requireAuth =>
            /\ req[r].outcome = Resolved(Null)
            /\ req[r].pc \in {"parsed", "built", "contextFailed"}
            /\ req[r].context = EmptyContext
            /\ NoSideEffect(r)

\* A header-less request had its context built, beside an authorized one.
C9_Witness ==
    \E r, q \in Requests :
        /\ req[r].pc = "built" /\ ~req[r].header.present /\ ~options.requireAuth
        /\ req[q].pc = "built" /\ DOMAIN req[q].context # {}

\* --------------------------------------------------------------------- C10
\* The scheme of a header: what precedes its first space.
SchemeOf(h) == Split(h.chunks)[1]

\* The headers with a scheme other than "Bearer".
OtherSchemeHeaders ==
    {h \in Headers : h.present /\ h.chunks # <<>> /\ SchemeOf(h) # "Bearer"}

\* C10: a request whose authorization header carries a scheme other than
\* "Bearer" is rejected with InvalidTokenScheme, a 401 naming the scheme, and
\* neither a provider lookup nor a cache read or write is made for it.
C10_OtherSchemeRejectedFirst ==
    \A r \in Requests :
        ( Extracted(r) /\ req[r].header \in OtherSchemeHeaders )
            => /\ req[r].pc = "rejected"
               /\ req[r].outcome.error.class = "GraphQLError"
               /\ req[r].outcome.error.status = 401
               /\ req[r].outcome.error.message =
                     "Unsupported token type provided: \""
                        \o SchemeOf(req[r].header) \o "\""
               /\ NoSideEffect(r)

\* A "Basic x" request was rejected on a plugin that has a cache.
C10_Witness ==
    \E r \in Requests :
        /\ req[r].pc = "rejected" /\ options.redis
        /\ req[r].header = Header(<<"Basic", SP, "x">>)

\* --------------------------------------------------------------------- C11
\* C11: the context-build hook, run on a context with no request on it,
\* fails with a generic error that is not a 401 Unauthorized error, and does
\* not extend the context.
C11_MissingRequestIsNotA401 ==
    \A r \in Requests :
        /\ req[r].pc = "contextFailed" =>
              /\ req[r].contextError # Null
              /\ req[r].contextError.class = "Error"
              /\ ~instanceofGraphQLError(req[r].contextError)
              /\ req[r].contextError.status # HttpUnauthorized
              /\ req[r].context = EmptyContext
        /\ req[r].pc # "contextFailed" => req[r].contextError = Null

\* The hook failed for a request whose identity was in the store.
C11_Witness ==
    \E r \in Requests :
        req[r].pc = "contextFailed" /\ payloadByRequest[r] # Null

\* --------------------------------------------------------------------- C12
\* Two calls of authorize made with no cache, for the same token, to which
\* the provider returned the same valid SessionData.
SameValidLookup(r, q) ==
    /\ r # q
    /\ ~options.redis
    /\ req[r].path = "direct" /\ req[q].path = "direct"
    /\ req[r].token = req[q].token
    /\ ReportedValid(r) /\ ReportedValid(q)
    /\ req[r].data = req[q].data

\* C12: two calls of authorize with the same valid token, with no cache and
\* the provider's state unchanged, end the same way whichever came first, and
\* when the role is allowed both return an identity with the session and user
\* the provider returned, whatever store or request either was given.
C12_RepeatedCallsAgree ==
    \A r, q \in Requests :
        SameValidLookup(r, q) =>
            /\ req[r].outcome = req[q].outcome
            /\ ( options.allowedRoles = {}
                 \/ UserRole(req[r].data.user) \in options.allowedRoles ) =>
                    /\ req[q].outcome.kind = "resolved"
                    /\ req[q].outcome.auth.session = req[r].data.session
                    /\ req[q].outcome.auth.user = req[r].data.user

\* Two calls for the same token both returned an identity, the first having
\* been given a store and a request and the second not.
C12_Witness ==
    \E r, q \in Requests :
        /\ r < q /\ SameValidLookup(r, q)
        /\ req[r].given = [store |-> TRUE, request |-> TRUE]
        /\ ~req[q].given.request
        /\ req[r].outcome.kind = "resolved" /\ req[q].outcome.kind = "resolved"
        /\ req[r].outcome.auth # Null

\* --------------------------------------------------------------------- C13
\* Request r went through the cache-miss branch with no collaborator failing:
\* it read the cache, found nothing, looked the session up, found it valid and
\* wrote it to the cache.
MissedAndWrote(r) ==
    /\ Settled(r)
    /\ req[r].path = "miss" /\ req[r].fault = "none"
    /\ calls[r] = [get |-> 1, lookup |-> 1, setEx |-> 1]

\* Every entry is the serialized SessionData of the token in its key.
EntriesAreOfTheirToken ==
    \A k \in DOMAIN cache :
        LET t == req[cache[k].writer].token
        IN /\ t.present /\ t.value \in ProviderTokens
           /\ k = cacheKey(options.cachePrefix, t.value)
           /\ cache[k].value = JSONstringify(ProviderRecord(t.value))

\* A write over a live entry by another request leaves its value as it was.
RacingWriteKeepsValue ==
    \A k \in DOMAIN cache \cap DOMAIN cache' :
        cache'[k].writer # cache[k].writer => cache'[k].value = cache[k].value

\* C13: requests with the same token that all miss the cache each make their
\* own lookup and their own write; the writes to one key are idempotent (the
\* entry is the SessionData of that token whichever write comes last), and
\* each request ends as it would have alone: with the identity of its token
\* and of the SessionData it looked up when the role is allowed, rejected
\* when it is not.
C13_ConcurrentMissesAreIdempotent ==
    /\ [](EntriesAreOfTheirToken)
    /\ [][RacingWriteKeepsValue]_vars
    /\ [](\A r \in Requests :
            MissedAndWrote(r) =>
                IF options.allowedRoles = {}
                   \/ UserRole(req[r].data.user) \in options.allowedRoles
                THEN /\ req[r].outcome =
                          Resolved(IdentityOf(req[r].token.value, req[r].data))
                     /\ payloadByRequest[r] = req[r].outcome.auth
                ELSE req[r].outcome.kind = "rejected")

\* The race under way: r missed the cache and is about to write, while the
\* entry of its key has been written by q since, which missed it too.
C13_Witness ==
    \E r, q \in Requests :
        /\ r # q
        /\ req[r].pc = "redisSetEx" /\ req[r].token = req[q].token
        /\ MissedAndWrote(q)
        /\ cacheKey(options.cachePrefix, req[r].token.value) \in DOMAIN cache
        /\ cache[cacheKey(options.cachePrefix, req[r].token.value)].writer = q

\* --------------------------------------------------------------------- C14
\* The call of authorize numbered r was given both a store and a request.
GivenBoth(r) == req[r].given.store /\ req[r].given.request

\* A step changes the store only at the request of a call that was given both
\* a store and a request and succeeds in that step, and the entry is the
\* identity the call returns.
StoreSetOnlyOnSuccess ==
    \A k \in Requests :
        payloadByRequest'[k] # payloadByRequest[k] =>
            /\ GivenBoth(k)
            /\ req[k].outcome.kind = "pending"
            /\ req'[k].outcome.kind = "resolved"
            /\ payloadByRequest'[k] = req'[k].outcome.auth

\* A step in which a call fails, or ends without having been given both,
\* leaves the store as it was.
StoreKeptOtherwise ==
    \A r \in Requests :
        ( /\ req[r].outcome.kind = "pending"
          /\ req'[r].outcome.kind # "pending"
          /\ req'[r].outcome.kind = "rejected" \/ ~GivenBoth(r) )
            => payloadByRequest' = payloadByRequest

\* C14: authorize changes the per-request store only by setting the entry of
\* the request it was given, and only when it succeeds and was given both a
\* store and a request; on every failure, and whenever the store or the
\* request is not given, the store is unchanged, so a rejected request
\* never has an entry.
C14_StoreFrame ==
    /\ [][StoreSetOnlyOnSuccess /\ StoreKeptOtherwise]_vars
    /\ [](\A r \in Requests :
            /\ req[r].outcome.kind = "rejected" => payloadByRequest[r] = Null
            /\ ~GivenBoth(r) => payloadByRequest[r] = Null
            /\ req[r].outcome.kind = "resolved" /\ GivenBoth(r) =>
                  payloadByRequest[r] = req[r].outcome.auth)

\* One call succeeded with a store and no request, another was given both
\* and failed on the role of a valid session; neither has an entry.
C14_Witness ==
    \E r, q \in Requests :
        /\ r # q
        /\ req[r].outcome.kind = "resolved"
        /\ req[r].given = [store |-> TRUE, request |-> FALSE]
        /\ payloadByRequest[r] = Null
        /\ req[q].outcome.kind = "rejected" /\ GivenBoth(q)
        /\ RoleOutside(q)
        /\ payloadByRequest[q] = Null

\* --------------------------------------------------------------------- C15
\* Entry k is created or written in this step.
Written(k) ==
    /\ k \in DOMAIN cache'
    /\ k \notin DOMAIN cache \/ cache'[k] # cache[k]

\* A step of the program (one that moves a request) removes no entry, and
\* writes an entry only as the redis.setEx of a request that missed the
\* cache and whose own lookup returned a valid session marker: at the key of
\* that request's token, with the serialized SessionData of that lookup.
ProgramWritesOnlyAfterValidLookup ==
    req' # req =>
        /\ DOMAIN cache \subseteq DOMAIN cache'
        /\ \A k \in DOMAIN cache' :
             Written(k) =>
                \E r \in Requests :
                    /\ req[r].pc = "redisSetEx" /\ req[r].path = "miss"
                    /\ calls[r].get = 1 /\ calls[r].lookup = 1
                    /\ ~NoSession(req[r].data)
                    /\ req[r].data \in
                         {o.value : o \in {x \in GetSessionOutcomes(req[r].token.value) :
                                             ~x.threw}}
                    /\ k = cacheKey(options.cachePrefix, req[r].token.value)
                    /\ cache'[k] = [value |-> JSONstringify(req[r].data),
                                    ttl |-> options.cacheExpiration,
                                    age |-> 0, writer |-> r]
                    /\ \A j \in DOMAIN cache : j # k => cache'[j] = cache[j]

\* A step that is not the program's only ages the entries; those that go
\* have reached their time to live.
OnlyExpiryRemoves ==
    req' = req =>
        /\ DOMAIN cache' \subseteq DOMAIN cache
        /\ \A k \in DOMAIN cache' : cache'[k] = [cache[k] EXCEPT !.age = @ + 1]
        /\ \A k \in DOMAIN cache \ DOMAIN cache' : cache[k].age + 1 >= cache[k].ttl

\* A request that ends on a cache hit leaves the cache as it was.
HitWritesNothing ==
    \A r \in Requests :
        req'[r].path = "hit" /\ req[r].path # "hit" => cache' = cache

\* C15: an entry is created only on a cache miss after a lookup that
\* returned a valid session marker, at the key "<prefix>:<token>" of the
\* token of that lookup; a failed lookup or a missing session marker causes
\* no write; a cache hit rewrites nothing; the program deletes no entry.
C15_CacheWrittenOnlyOnValidMiss ==
    /\ [][ProgramWritesOnlyAfterValidLookup /\ OnlyExpiryRemoves
          /\ HitWritesNothing]_vars
    /\ [](\A r \in Requests :
            ( Settled(r) /\ calls[r].lookup = 1
              /\ (req[r].fault = "getSession" \/ NoSession(req[r].data)) )
                => /\ calls[r].setEx = 0
                   /\ \A k \in DOMAIN cache : cache[k].writer # r)

\* Two requests with different tokens both missed and wrote: the entries of
\* both stand, the later write having kept the earlier entry.
C15_Witness ==
    \E r, q \in Requests :
        /\ MissedAndWrote(r) /\ MissedAndWrote(q)
        /\ req[r].token # req[q].token
        /\ \E k, j \in DOMAIN cache :
              k # j /\ cache[k].writer = r /\ cache[j].writer = q

\* --------------------------------------------------------------------- C16
\* The terminal states of the pre-parse hook of r.
IsAuthorized(r) == req[r].outcome.kind = "resolved" /\ payloadByRequest[r] # Null
IsAnonymous(r) == req[r].outcome.kind = "resolved" /\ payloadByRequest[r] = Null
IsRejected(r) == req[r].outcome.kind = "rejected"

\* The extractor threw for the header of r.
ExtractionFailed(r) == req[r].fault = "getToken"

\* What the state of a request whose hook has started says of how it ended.
TerminalStateIsJustified(r) ==
    /\ Settled(r) <=>
          req[r].pc \notin {"getToken", "redisGet", "redisGot", "getSession",
                             "redisSetEx", "redisSetExDone", "awaitAuthorize"}
    /\ Settled(r) =>
          Cardinality({b \in {"authorized", "rejected", "anonymous"} :
                          \/ b = "authorized" /\ IsAuthorized(r)
                          \/ b = "rejected" /\ IsRejected(r)
                          \/ b = "anonymous" /\ IsAnonymous(r)}) = 1
    /\ IsAuthorized(r) =>
          /\ ~ExtractionFailed(r) /\ req[r].token.present
          /\ calls[r].get + calls[r].lookup >= 1
    /\ IsAnonymous(r) =>
          /\ ~ExtractionFailed(r) /\ ~req[r].token.present
          /\ ~options.requireAuth
    /\ IsRejected(r) =>
          \/ ExtractionFailed(r)
          \/ req[r].token.present /\ calls[r].get + calls[r].lookup >= 1
          \/ ~req[r].token.present /\ options.requireAuth
    /\ ( Extracted(r) /\ ~req[r].token.present /\ ~ExtractionFailed(r)
         /\ ~options.requireAuth ) => IsAnonymous(r)

\* C16: the pre-parse processing of each request ends in exactly one of
\* Authorized, Rejected (extraction or authorize failed, or no credential
\* with requireAuth = true) and Anonymous (only with no credential and
\* requireAuth = false), stays there, and, every awaited call returning in
\* the end, every started pre-parse hook does end: again and again all the
\* hooks started so far have ended, which, a started hook staying started
\* and an ended one ended, is every started hook ending.
C16_ExactlyOneTerminalState ==
    /\ [](\A r \in Requests : req[r].pc # "new" => TerminalStateIsJustified(r))
    /\ [][\A r \in Requests :
            Settled(r) => /\ req'[r].outcome = req[r].outcome
                          /\ payloadByRequest'[r] = payloadByRequest[r]]_vars
    /\ []<>(\A r \in Requests : req[r].pc # "new" => Settled(r))

\* All three terminal states at once needs three requests; here one request
\* is authorized after a cache miss and another is rejected after a lookup.
C16_Witness ==
    \E r, q \in Requests :
        /\ IsAuthorized(r) /\ req[r].path = "miss" /\ calls[r].setEx = 1
        /\ IsRejected(q) /\ req[q].token.present /\ calls[q].lookup = 1

\* --------------------------------------------------------------------- C17
\* The provider's response to the lookup made for r, as r recorded it.
LookupResponse(r) ==
    IF req[r].fault = "getSession" THEN Threw(PlainError("getSession failed"))
    ELSE Returned(req[r].data)

\* The store as it was for r before its hook settled.
StoreBefore(r) == Store([payloadByRequest EXCEPT ![r] = Null])

\* How the hook of r ended: what it threw if it did, and the entry of r.
EndOf(r) ==
    [threw |-> req[r].outcome.kind = "rejected",
     error |-> IF req[r].outcome.kind = "rejected" THEN req[r].outcome.error
               ELSE Null,
     entry |-> payloadByRequest[r]]

\* The same of a result of authorize or of the inline code.
EndOfResult(r, res) ==
    [threw |-> res.threw,
     error |-> IF res.threw THEN res.error ELSE Null,
     entry |-> res.store.map[r]]

\* C17 (as claimed): the cached form with no cache and the uncached form are
\* one algorithm: whatever the provider answered to a request handled by one
\* of them, the other, given the same answer, ends the same way (the same
\* failure, or success) with the same entry in the per-request store.
C17_FormsAgree ==
    \A r \in Requests :
        Settled(r) /\ calls[r].lookup = 1 /\ req[r].path \in {"direct", "inline"} =>
            LET client == createAuthClient(req[r].token.value)
                other ==
                    IF req[r].path = "direct"
                    THEN onRequestParseInline(LookupResponse(r), client,
                             options.allowedRoles, options.messages,
                             StoreBefore(r), Request(r))
                    ELSE authorizeNoCache(LookupResponse(r), client,
                             options.allowedRoles, options.messages,
                             StoreBefore(r), Request(r))
            IN EndOf(r) = EndOfResult(r, other)

\* --------------------------------------------------------------------- C18
\* redis.get was answered for r from an entry of the cache, with a value
\* that cannot be deserialized, and the authorize of r has ended.
HitUnparsable(r) ==
    /\ req[r].result.kind # "pending"
    /\ calls[r].get = 1 /\ req[r].fault # "get"
    /\ req[r].cached # Null /\ JSONparse(req[r].cached).threw

\* C18 (as claimed): on a cache hit whose stored value cannot be
\* deserialized, authorize fails with Unauthorized(invalidToken), having made
\* no provider lookup and no cache write, and with nothing recorded in the
\* per-request store.
C18_UnparsableHitIsInvalidToken ==
    \A r \in Requests :
        HitUnparsable(r) =>
            /\ req[r].result = Rejected(InvalidToken)
            /\ calls[r] = [get |-> 1, lookup |-> 0, setEx |-> 0]
            /\ payloadByRequest[r] = Null
            /\ \A k \in DOMAIN cache : cache[k].writer # r

\* --------------------------------------------------------------------- C19
\* The header of r has the scheme "Bearer" and nothing after it, or a space
\* and then nothing up to the end or to the next space.
BearerThenNothing(h) ==
    h.present /\ h.chunks # <<>> /\ SchemeOf(h) = "Bearer" /\ Len(Split(h.chunks)) = 1

BearerThenEmptyPiece(h) ==
    /\ h.present /\ h.chunks # <<>> /\ SchemeOf(h) = "Bearer"
    /\ Len(Split(h.chunks)) >= 2 /\ Split(h.chunks)[2] = ""

\* The headers of the one kind and of the other.
BareBearerHeaders == {h \in Headers : BearerThenNothing(h)}
EmptyPieceHeaders == {h \in Headers : BearerThenEmptyPiece(h)}

\* The hook of r took the empty string for a credential that is there:
\* authorize ran, and the request did not end as one without a credential.
EmptyCredentialPresent(r) ==
    /\ req[r].token = Token("")
    /\ req[r].given = [store |-> TRUE, request |-> TRUE]
    /\ Settled(r) =>
          /\ calls[r].get + calls[r].lookup >= 1
          /\ req[r].outcome # Rejected(AuthRequired)
          /\ ~IsAnonymous(r)

\* The hook of r found no credential: no call was made, and the request ended
\* anonymous, or rejected with authRequired.
CredentialAbsent(r) ==
    /\ req[r].token = NoToken
    /\ calls[r] = NoCalls
    /\ req[r].outcome = noCredential(options.requireAuth, options.messages)

\* C19 (as claimed): a header with the scheme "Bearer" followed by an empty
\* value yields the empty string as the credential, which is treated as a
\* present credential: authorize runs, and the request is neither anonymous
\* nor rejected with authRequired.
C19_EmptyBearerValueIsPresent ==
    \A r \in Requests :
        ( Extracted(r) /\ req[r].header \in BareBearerHeaders \cup EmptyPieceHeaders )
            => EmptyCredentialPresent(r)

\* C19 (amended): the empty string is the credential, and a present one, when
\* a space follows the scheme and the piece after it is empty; the header
\* "Bearer" alone yields no credential and is treated as credential-absent.
C19_EmptyPieceIsPresentBareSchemeIsAbsent ==
    \A r \in Requests :
        /\ Extracted(r) /\ req[r].header \in EmptyPieceHeaders
              => EmptyCredentialPresent(r)
        /\ Extracted(r) /\ req[r].header \in BareBearerHeaders
              => CredentialAbsent(r)

\* One request's empty credential went to the provider, which decided;
\* another, with the header "Bearer" alone, ended without any call.
C19_Witness ==
    \E r, q \in Requests :
        /\ BearerThenEmptyPiece(req[r].header)
        /\ Settled(r) /\ calls[r].lookup = 1 /\ req[r].token = Token("")
        /\ BearerThenNothing(req[q].header) /\ Settled(q)

\* --------------------------------------------------------------------- C20
\* Identity a, produced for request r, has a session marker, and its client,
\* session and user are those of the credential r presented: the session and
\* the user are the ones the provider returns for that credential.
IsOfPresentedCredential(r, a) ==
    /\ a.session # Null
    /\ req[r].token.present /\ req[r].token.value \in ProviderTokens
    /\ a.client = createAuthClient(req[r].token.value)
    /\ a.session = ProviderRecord(req[r].token.value).session
    /\ a.user = ProviderRecord(req[r].token.value).user

\* C20 (as claimed): every identity that authorize returns, records or that
\* is attached to a context carries the session marker and the user that the
\* provider returned for exactly the credential presented, on the no-cache,
\* cache-miss and cache-hit paths, the cache holding only entries written by
\* the program; no identity is without a session marker.
C20_IdentityIsOfPresentedCredential ==
    \A r \in Requests :
        \A a \in IdentitiesOf(r) : IsOfPresentedCredential(r, a)

\* --------------------------------------------------------------------- C21
\* redis.get was answered for q from an entry of the cache, which request
\* req[q].source had written.
ServedFromCache(q) ==
    req[q].pc \notin {"new", "getToken", "redisGet"} /\ req[q].source # 0

\* authorize returned an identity for q from what the cache held.
AuthorizedFromCache(q) ==
    req[q].path = "hit" /\ req[q].result.kind = "resolved"

\* The entry q was served from holds what the provider returned, as a valid
\* session, to a request with the same token that then wrote it.
EntryIsOfValidLookup(q) ==
    LET w == req[q].source
    IN /\ req[w].token = req[q].token
       /\ calls[w].lookup = 1 /\ ~NoSession(req[w].data)
       /\ req[q].cached = JSONstringify(req[w].data)
       /\ req[q].dataAt = req[w].dataAt
       /\ req[w].dataAt <= req[w].appliedAt
       /\ req[w].appliedAt <= req[q].servedAt

\* An entry is in the keyspace for cacheExpiration seconds from the moment
\* the server applied its write, and no longer; redis.get is answered from
\* the entry of the key when there is one, and with null when there is none.
EntriesLiveForTtl ==
    /\ [](\A k \in DOMAIN cache :
            now < req[cache[k].writer].appliedAt + options.cacheExpiration)
    /\ [][\A r \in Requests :
            req[r].pc = "redisGet" /\ req'[r].pc = "redisGot" =>
                LET key == cacheKey(options.cachePrefix, req[r].token.value)
                IN IF key \in DOMAIN cache
                   THEN req'[r].cached = cache[key].value
                   ELSE req'[r].cached = Null /\ req'[r].source = 0]_vars

\* A request whose redis.get finds no entry for its token looks the session
\* up after that, and is authorized only if that lookup returns a valid
\* session: a session the provider no longer reports is rejected.
ExpiredEntryMeansFreshLookup ==
    /\ EntriesLiveForTtl
    /\ [](\A r \in Requests :
            req[r].result.kind # "pending" /\ req[r].path = "miss" =>
                /\ calls[r].lookup = 1
                /\ req[r].result.kind = "resolved" =>
                      ~NoSession(req[r].data) /\ req[r].servedAt <= req[r].dataAt
                /\ NoSession(req[r].data) => req[r].result.kind = "rejected")

\* C21 (as claimed): a request is authorized from the cache only if the
\* provider returned a valid session for its token at most cacheExpiration
\* seconds earlier; once the entry of a token has expired, the next authorize
\* for it makes a fresh lookup, so that a session revoked at the provider is
\* rejected after at most one time to live.
C21_StalenessWithinTtl ==
    /\ [](\A q \in Requests :
            AuthorizedFromCache(q) =>
                /\ EntryIsOfValidLookup(q)
                /\ req[q].endedAt <= req[q].dataAt + options.cacheExpiration)
    /\ ExpiredEntryMeansFreshLookup

\* C21 (amended): the time to live bounds the time from the write of an entry
\* to the moment the server answers a redis.get from it, and nothing else: a
\* request is authorized from the cache only from an entry that the server
\* served less than cacheExpiration seconds after it applied the write, and
\* that holds what the provider had returned as a valid session for the
\* token before that write.  The times from the provider's answer to the
\* write, and from the server's answer to the authorization, are not
\* bounded.  Once the entry has expired, the next redis.get for the token
\* finds nothing and authorize makes a fresh lookup.
C21_StalenessWithinTtlOfWrite ==
    /\ [](\A q \in Requests :
            ServedFromCache(q) =>
                req[q].servedAt <
                    req[req[q].source].appliedAt + options.cacheExpiration)
    /\ [](\A q \in Requests :
            AuthorizedFromCache(q) =>
                /\ EntryIsOfValidLookup(q)
                /\ req[q].servedAt <= req[q].endedAt)
    /\ ExpiredEntryMeansFreshLookup

\* A request was authorized from an entry served in the last second of its
\* life, written a second after the provider's answer, the reply of the
\* cache having taken a second to reach the program: the provider's answer
\* is then older than the time to live.
C21_Witness ==
    \E q \in Requests :
        LET w == req[q].source
        IN /\ AuthorizedFromCache(q)
           /\ req[w].dataAt < req[w].appliedAt
           /\ req[q].servedAt + 1 = req[w].appliedAt + options.cacheExpiration
           /\ req[q].servedAt < req[q].endedAt
           /\ req[q].endedAt > req[q].dataAt + options.cacheExpiration
====
